---- MODULE Spec2Model ----
(***************************************************************************)
(* Model of cp_sampler.py: the timeout-bounded parameter sweep (one worker *)
(* thread per parameter combination, sharing one Model object) and the     *)
(* get_top selection helper; and of summary/sum_phi.py: the CSV codec       *)
(* (dict_to_csv, csv_to_dict) and the harvester of the result files.       *)
(***************************************************************************)
EXTENDS Integers, Sequences, FiniteSets, TLC

VARIABLES
    argv,            \* <<index_1, index_2>>, the two command line indices
    pc,              \* position of the main thread in the sweep loop
    i,               \* loop variable of the sweep (1-based here, i+1 of the code)
    params,          \* model.tau_sat, b, tau_0, gamma_0, n (<<>> before define_params)
    model_output,    \* model.model_output, shared by all worker threads
    wstate,          \* per combination: state of the thread started for it
    files,           \* the results directory: file name -> content
    nwrites,         \* number of dict_to_csv calls made so far
    startCount,      \* per combination: number of thread.start() calls
    joinTimedOut,    \* per combination: thread.join returned by its timeout
    aliveAtCheck,    \* per combination: thread.is_alive() returned True
    value_list,      \* get_top: argument
    num_values,      \* get_top: argument
    top_value_list,  \* get_top: local
    top_index_list,  \* get_top: local
    gi,              \* get_top: loop variable (1-based; gi-1 iterations are done)
    gpc,             \* get_top: "off" | "loop" | "returned"
    cdict,           \* codec: data_dict, a sequence of (key, value) entries
    cfile,           \* codec: the text of the file at csv_path
    cidx,            \* codec: loop variable of the row loops (1-based)
    cpc,             \* codec: position in dict_to_csv, then in csv_to_dict
    clines,          \* codec: csv_lines of csv_to_dict
    cresult,         \* codec: csv_dict of csv_to_dict
    hfiles,          \* harvester: csv_file_list, each file with its columns
    hidx,            \* harvester: loop variable over csv_file_list (1-based)
    hpc,             \* harvester: "off" | "loop" | "raised" | "written"
    success_dict     \* harvester: per key of success_keys, the list length

sweepVars == <<argv, pc, i, params, model_output, wstate, files,
               nwrites, startCount, joinTimedOut, aliveAtCheck>>
topVars == <<value_list, num_values, top_value_list, top_index_list, gi, gpc>>
csvVars == <<cdict, cfile, cidx, cpc, clines, cresult>>
harvVars == <<hfiles, hidx, hpc, success_dict>>
vars == <<argv, pc, i, params, model_output, wstate, files,
          nwrites, startCount, joinTimedOut, aliveAtCheck,
          value_list, num_values, top_value_list, top_index_list, gi, gpc,
          cdict, cfile, cidx, cpc, clines, cresult,
          hfiles, hidx, hpc, success_dict>>

(***************************************************************************)
(* Bounds of the model.                                                    *)
(***************************************************************************)
\* number of values of the "b" domain that are swept (10 in the source)
NumB == 2
\* number of joins of one sweep that may end by their timeout
MaxTimeouts == 1
\* longest value_list given to get_top
MaxLen == 3
\* values of value_list are drawn from 1..MaxVal
MaxVal == 3
\* num_values is drawn from 0..MaxN
MaxN == 3
\* longest list held by a column of the data_dict given to dict_to_csv
MaxCol == 2
\* most files of the results directory read by the harvester
MaxFiles == 2

(***************************************************************************)
(* Parameter domains and their combinations.                               *)
(***************************************************************************)
TauSatList == <<50, 100, 200, 400, 800, 1600>>
\* the "b" values in tenths: 0.1, 0.2, 0.4, ...
BList == <<1, 2, 4, 8, 16, 32, 64, 128, 256, 512>>
\* the first two of the five tau_0 values 50, 100, 200, 400, 800
Tau0List == <<50, 100>>
\* round_sf(STRAIN_RATE/3, 4) = 3.333e-05, in units of 1e-8
Gamma0List == <<3333>>
NList == <<2, 4, 8, 16>>

\* the command lines the sweep is run with: the two ends of the index ranges
ArgvSet == {<<0, 0>>, <<3, 5>>}

param_names == <<"tau_sat", "b", "tau_0", "gamma_0", "n">>

all_params_dict(av) ==
    << <<TauSatList[av[2] + 1]>>,
       SubSeq(BList, 1, NumB),
       Tau0List,
       Gamma0List,
       <<NList[av[1] + 1]>> >>

\* the number of elements of itertools.product(*doms)
RECURSIVE ProductSize(_)
ProductSize(doms) ==
    IF Len(doms) = 0 THEN 1 ELSE Len(Head(doms)) * ProductSize(Tail(doms))

\* element k (from 1) of itertools.product(*doms): the last domain varies
\* fastest, the first slowest
RECURSIVE ProductElement(_, _)
ProductElement(doms, k) ==
    IF Len(doms) = 0 THEN <<>>
    ELSE LET n == ProductSize(Tail(doms))
         IN <<Head(doms)[((k - 1) \div n) + 1]>>
                \o ProductElement(Tail(doms), ((k - 1) % n) + 1)

\* a plausible slip: the first domain varying fastest, the last slowest
combinationsFirstFastest(av) ==
    LET rev(t) == [j \in 1..Len(t) |-> t[Len(t) + 1 - j]]
        doms == all_params_dict(av)
    IN [k \in 1..ProductSize(doms) |-> rev(ProductElement(rev(doms), k))]
\* lines 237-239: list(itertools.product(*param_list)), each made a list
combinations(av) ==
    [k \in 1..ProductSize(all_params_dict(av)) |->
        ProductElement(all_params_dict(av), k)]

NumCombos == ProductSize(all_params_dict(<<0, 0>>))
Combos == 1..NumCombos

(***************************************************************************)
(* File names.                                                             *)
(***************************************************************************)
\* str(n) for n >= 0, as a sequence of decimal digits
RECURSIVE Str(_)
Str(n) == IF n < 10 THEN <<n>> ELSE Str(n \div 10) \o <<n % 10>>

\* s.zfill(w): pads with zeros on the left, never truncates
RECURSIVE ZFill(_, _)
ZFill(s, w) == IF Len(s) >= w THEN s ELSE ZFill(<<0>> \o s, w)

\* index_str of iteration i of the code (k = i + 1)
IndexStr(k) == ZFill(Str(k), 3)

\* a plausible slip: the ordinal left out of the path
ResultsPathNoOrdinal(av, k) == <<av[1], av[2], <<>> >>
\* f"results/{index_1}_{index_2}_{index_str}"
ResultsPath(av, k) == <<av[1], av[2], IndexStr(k)>>

FileName(av, k, suffix) == <<ResultsPath(av, k), suffix>>

TimeoutSuffix == "_timeout.csv"
FailedSuffix == "_failed.csv"
FullSuffix == ".csv"

(***************************************************************************)
(* File contents: the dictionary handed to dict_to_csv.                    *)
(***************************************************************************)
\* model.model_output: None, or the output of run_cp of the thread "worker"
None == [worker |-> 0]

GrainCols == <<"phi_1_start", "phi_1_end", "Phi_start", "Phi_end",
               "phi_2_start", "phi_2_end">>
DataCols == <<"strain", "stress">>

\* param_dict = dict(zip(param_names, combinations[i]))
ParamDict(comb) == [cols |-> param_names, params |-> comb, results |-> None]

\* combined_dict = {**param_dict, **data_dict, **grain_dict}
CombinedDict(comb, out) ==
    [cols |-> param_names \o DataCols \o GrainCols, params |-> comb, results |-> out]

\* dict_to_csv: opens the path with "w+", replacing what was there
WriteFile(fs, name, content) ==
    [f \in (DOMAIN fs) \cup {name} |-> IF f = name THEN content ELSE fs[f]]

(***************************************************************************)
(* The sweep: main thread (lines 246-283) and worker threads (run_cp).     *)
(***************************************************************************)
Done == {"done_ok", "done_raised"}

\* where the loop goes after iteration k: the next iteration, or past the end
AfterIteration(k) == IF k + 1 > NumCombos THEN "done" ELSE "define"

NumTimeouts == Cardinality({k \in Combos : joinTimedOut[k]})

SweepInit ==
    /\ argv \in ArgvSet
    /\ pc = "define"
    /\ i = 1
    /\ params = <<>>
    /\ model_output = None
    /\ wstate = [k \in Combos |-> "idle"]
    /\ files = <<>>
    /\ nwrites = 0
    /\ startCount = [k \in Combos |-> 0]
    /\ joinTimedOut = [k \in Combos |-> FALSE]
    /\ aliveAtCheck = [k \in Combos |-> FALSE]

TopIdle ==
    /\ value_list = <<>>
    /\ num_values = 0
    /\ top_value_list = <<>>
    /\ top_index_list = <<>>
    /\ gi = 1
    /\ gpc = "off"

\* the codec is not running
CsvIdle ==
    /\ cdict = <<>>
    /\ cfile = <<>>
    /\ cidx = 1
    /\ cpc = "off"
    /\ clines = <<>>
    /\ cresult = <<>>

\* the harvester is not running
HarvIdle ==
    /\ hfiles = <<>>
    /\ hidx = 1
    /\ hpc = "off"
    /\ success_dict = <<>>

\* line 254: model.define_params(**param_dict)
DefineParams ==
    /\ pc = "define"
    /\ params' = combinations(argv)[i]
    /\ pc' = "start"
    /\ UNCHANGED <<argv, i, model_output, wstate, files, nwrites,
                   startCount, joinTimedOut, aliveAtCheck, topVars,
                   csvVars, harvVars>>

\* lines 255-256: thread = Thread(target=model.run_cp); thread.start()
StartThread ==
    /\ pc = "start"
    /\ wstate' = [wstate EXCEPT ![i] = "running"]
    /\ startCount' = [startCount EXCEPT ![i] = @ + 1]
    /\ pc' = "join"
    /\ UNCHANGED <<argv, i, params, model_output, files, nwrites,
                   joinTimedOut, aliveAtCheck, topVars,
                   csvVars, harvVars>>

\* line 257: thread.join(timeout=MAX_TIME) returns because the thread ended
JoinReturn ==
    /\ pc = "join"
    /\ wstate[i] \in Done
    /\ pc' = "alive"
    /\ UNCHANGED <<argv, i, params, model_output, wstate, files,
                   nwrites, startCount, joinTimedOut, aliveAtCheck, topVars,
                   csvVars, harvVars>>

\* a plausible slip: join() without a timeout never returns on a live thread
JoinWithoutTimeout ==
    /\ pc = "join"
    /\ FALSE
    /\ UNCHANGED vars
\* line 257: thread.join(timeout=MAX_TIME) returns because MAX_TIME elapsed
JoinTimeout ==
    /\ pc = "join"
    /\ wstate[i] \notin Done
    /\ NumTimeouts < MaxTimeouts
    /\ joinTimedOut' = [joinTimedOut EXCEPT ![i] = TRUE]
    /\ pc' = "alive"
    /\ UNCHANGED <<argv, i, params, model_output, wstate, files,
                   nwrites, startCount, aliveAtCheck, topVars,
                   csvVars, harvVars>>

\* a plausible slip: the timeout branch without its continue
IsAliveTimeoutNoContinue ==
    /\ pc = "alive"
    /\ wstate[i] \notin Done
    /\ aliveAtCheck' = [aliveAtCheck EXCEPT ![i] = TRUE]
    /\ files' = WriteFile(files, FileName(argv, i, TimeoutSuffix),
                          ParamDict(combinations(argv)[i]))
    /\ nwrites' = nwrites + 1
    /\ pc' = "get"
    /\ UNCHANGED <<argv, i, params, model_output, wstate,
                   startCount, joinTimedOut, topVars,
                   csvVars, harvVars>>
\* lines 260-262: thread.is_alive() is True: timeout marker, continue
IsAliveTimeout ==
    /\ pc = "alive"
    /\ wstate[i] \notin Done
    /\ aliveAtCheck' = [aliveAtCheck EXCEPT ![i] = TRUE]
    /\ files' = WriteFile(files, FileName(argv, i, TimeoutSuffix),
                          ParamDict(combinations(argv)[i]))
    /\ nwrites' = nwrites + 1
    /\ i' = i + 1
    /\ pc' = AfterIteration(i)
    /\ UNCHANGED <<argv, params, model_output, wstate,
                   startCount, joinTimedOut, topVars,
                   csvVars, harvVars>>

\* line 260: thread.is_alive() is False
IsAliveDead ==
    /\ pc = "alive"
    /\ wstate[i] \in Done
    /\ pc' = "get"
    /\ UNCHANGED <<argv, i, params, model_output, wstate, files,
                   nwrites, startCount, joinTimedOut, aliveAtCheck, topVars,
                   csvVars, harvVars>>

\* lines 263-266: model_output = model.get_results() is None: failed marker
GetResultsFailed ==
    /\ pc = "get"
    /\ model_output = None
    /\ files' = WriteFile(files, FileName(argv, i, FailedSuffix),
                          ParamDict(combinations(argv)[i]))
    /\ nwrites' = nwrites + 1
    /\ i' = i + 1
    /\ pc' = AfterIteration(i)
    /\ UNCHANGED <<argv, params, model_output, wstate,
                   startCount, joinTimedOut, aliveAtCheck, topVars,
                   csvVars, harvVars>>

\* lines 263, 267-283: model_output is a result: the full result file
GetResultsFull ==
    /\ pc = "get"
    /\ model_output # None
    /\ files' = WriteFile(files, FileName(argv, i, FullSuffix),
                          CombinedDict(combinations(argv)[i], model_output))
    /\ nwrites' = nwrites + 1
    /\ i' = i + 1
    /\ pc' = AfterIteration(i)
    /\ UNCHANGED <<argv, params, model_output, wstate,
                   startCount, joinTimedOut, aliveAtCheck, topVars,
                   csvVars, harvVars>>

\* lines 90-99 of run_cp: uniaxial_test returns, the output is stored
WorkerSucceed(k) ==
    /\ wstate[k] = "running"
    /\ model_output' = [worker |-> k]
    /\ wstate' = [wstate EXCEPT ![k] = "done_ok"]
    /\ UNCHANGED <<argv, pc, i, params, files, nwrites,
                   startCount, joinTimedOut, aliveAtCheck, topVars,
                   csvVars, harvVars>>

\* lines 100-101 of run_cp: anything raised in the try block is caught
WorkerRaise(k) ==
    /\ wstate[k] = "running"
    /\ model_output' = None
    /\ wstate' = [wstate EXCEPT ![k] = "done_raised"]
    /\ UNCHANGED <<argv, pc, i, params, files, nwrites,
                   startCount, joinTimedOut, aliveAtCheck, topVars,
                   csvVars, harvVars>>

MainStep ==
    \/ DefineParams
    \/ StartThread
    \/ JoinReturn
    \/ JoinTimeout
    \/ IsAliveTimeout
    \/ IsAliveDead
    \/ GetResultsFailed
    \/ GetResultsFull

\* run_cp of the thread being joined, once no further join may time out:
\* past MaxTimeouts the model holds only workers that return
BoundedWorker ==
    /\ pc = "join"
    /\ NumTimeouts >= MaxTimeouts
    /\ (WorkerSucceed(i) \/ WorkerRaise(i))

Init == SweepInit /\ TopIdle /\ CsvIdle /\ HarvIdle

Next ==
    \/ DefineParams
    \/ StartThread
    \/ JoinReturn
    \/ JoinTimeout
    \/ IsAliveTimeout
    \/ IsAliveDead
    \/ GetResultsFailed
    \/ GetResultsFull
    \/ \E k \in Combos : WorkerSucceed(k)
    \/ \E k \in Combos : WorkerRaise(k)

Spec == Init /\ [][Next]_vars

\* the main thread is never blocked for good: every join has a timeout
FairSpec == Spec /\ WF_vars(MainStep) /\ WF_vars(BoundedWorker)

(***************************************************************************)
(* get_top (lines 190-218).  Indices are those of the code (0-based);      *)
(* positions in the TLA+ sequences are 1-based.                            *)
(***************************************************************************)
\* list.insert(j - 1, x)
InsertAt(s, j, x) == SubSeq(s, 1, j - 1) \o <<x>> \o SubSeq(s, j, Len(s))

\* list.pop(-1), for its effect on the list
PopLast(s) == SubSeq(s, 1, Len(s) - 1)

\* a plausible slip: the comparison of line 211 turned around
InsertPosLess(tv, value) ==
    IF \E j \in 1..Len(tv) : value < tv[j]
    THEN CHOOSE j \in 1..Len(tv) :
            /\ value < tv[j]
            /\ \A h \in 1..(j - 1) : ~(value < tv[h])
    ELSE 0
\* lines 210-214: the first j with value > top_value_list[j], 0 when the
\* loop ends without a break
InsertPos(tv, value) ==
    IF \E j \in 1..Len(tv) : value > tv[j]
    THEN CHOOSE j \in 1..Len(tv) :
            /\ value > tv[j]
            /\ \A h \in 1..(j - 1) : ~(value > tv[h])
    ELSE 0

\* lines 203-217: one iteration of the loop, on value = value_list[idx]
GetTopBody(tv, ti, value, idx, n) ==
    IF Len(tv) = 0 THEN << <<value>>, <<idx>> >>
    ELSE IF value < tv[Len(tv)] /\ Len(tv) = n THEN <<tv, ti>>
    ELSE LET j   == InsertPos(tv, value)
             tv1 == IF j = 0 THEN tv ELSE InsertAt(tv, j, value)
             ti1 == IF j = 0 THEN ti ELSE InsertAt(ti, j, idx)
         IN IF Len(tv1) > n THEN <<PopLast(tv1), PopLast(ti1)>>
            ELSE <<tv1, ti1>>

SeqsUpTo(S, n) == UNION {[1..m -> S] : m \in 0..n}

SweepIdle ==
    /\ argv = <<0, 0>>
    /\ pc = "off"
    /\ i = 1
    /\ params = <<>>
    /\ model_output = None
    /\ wstate = [k \in Combos |-> "idle"]
    /\ files = <<>>
    /\ nwrites = 0
    /\ startCount = [k \in Combos |-> 0]
    /\ joinTimedOut = [k \in Combos |-> FALSE]
    /\ aliveAtCheck = [k \in Combos |-> FALSE]

\* lines 200-201: the call, with its two empty lists
InitTop ==
    /\ SweepIdle
    /\ CsvIdle
    /\ HarvIdle
    /\ value_list \in SeqsUpTo(1..MaxVal, MaxLen)
    /\ num_values \in 0..MaxN
    /\ top_value_list = <<>>
    /\ top_index_list = <<>>
    /\ gi = 1
    /\ gpc = "loop"

\* lines 202-217: iteration i = gi - 1 of the loop
GetTopIter ==
    /\ gpc = "loop"
    /\ gi <= Len(value_list)
    /\ LET r == GetTopBody(top_value_list, top_index_list,
                           value_list[gi], gi - 1, num_values)
       IN /\ top_value_list' = r[1]
          /\ top_index_list' = r[2]
    /\ gi' = gi + 1
    /\ UNCHANGED <<value_list, num_values, gpc, sweepVars,
                   csvVars, harvVars>>

\* line 218: return top_value_list, top_index_list
GetTopReturn ==
    /\ gpc = "loop"
    /\ gi > Len(value_list)
    /\ gpc' = "returned"
    /\ UNCHANGED <<value_list, num_values, top_value_list, top_index_list,
                   gi, sweepVars,
                   csvVars, harvVars>>

NextTop ==
    \/ GetTopIter
    \/ GetTopReturn

SpecTop == InitTop /\ [][NextTop]_vars

(***************************************************************************)
(* Properties of the sweep.                                                *)
(***************************************************************************)
\* the files whose name carries the ordinal of combination k
FilesOf(k) == {f \in DOMAIN files : f[1] = <<argv[1], argv[2], IndexStr(k)>>}

\* combination k has been classified and its file written
Recorded(k) == k < i

IsTimeoutMarker(f, k) ==
    /\ f = <<ResultsPath(argv, k), TimeoutSuffix>>
    /\ files[f] = ParamDict(combinations(argv)[k])

IsFailedMarker(f, k) ==
    /\ f = <<ResultsPath(argv, k), FailedSuffix>>
    /\ files[f] = ParamDict(combinations(argv)[k])

IsFullResult(f, k) ==
    /\ f = <<ResultsPath(argv, k), FullSuffix>>
    /\ files[f].cols = param_names \o DataCols \o GrainCols
    /\ files[f].params = combinations(argv)[k]
    /\ files[f].results # None

\* the product of the sizes of the five domains
DomainSizeProduct ==
    LET d == all_params_dict(argv)
    IN Len(d[1]) * Len(d[2]) * Len(d[3]) * Len(d[4]) * Len(d[5])

\* C1: the simulation output in the full result file of combination k was
\* produced by the worker started for combination k, never by the abandoned
\* worker of an earlier combination.
C1_DiscardOnTimeout ==
    \A k \in Combos : \A f \in FilesOf(k) :
        f[2] = FullSuffix => files[f].results.worker = k

\* C2 (as stated): a combination whose join ended by its timeout with the
\* worker unfinished has the timeout marker as its only file.
C2_JoinTimeoutIsTimedOut ==
    \A k \in Combos :
        (joinTimedOut[k] /\ Recorded(k)) =>
            /\ Cardinality(FilesOf(k)) = 1
            /\ \A f \in FilesOf(k) : IsTimeoutMarker(f, k)

\* C2 (amended): a combination whose worker is still alive when the main
\* loop tests thread.is_alive() after the join has the parameter-only
\* timeout marker as its only file, from then on and whatever the worker
\* does later.
C2_AliveAtCheckIsTimedOut ==
    \A k \in Combos :
        aliveAtCheck[k] =>
            /\ Cardinality(FilesOf(k)) = 1
            /\ \A f \in FilesOf(k) : IsTimeoutMarker(f, k)

\* the end of a sweep with a timed-out combination whose abandoned worker
\* succeeded later
C2_Witness ==
    /\ pc = "done"
    /\ \E k \in Combos : aliveAtCheck[k] /\ wstate[k] = "done_ok"

\* C3: a combination whose worker raised before the join returned has the
\* parameter-only failed marker as its only file.
C3_RaiseIsFailed ==
    \A k \in Combos :
        (wstate[k] = "done_raised" /\ ~joinTimedOut[k] /\ Recorded(k)) =>
            /\ Cardinality(FilesOf(k)) = 1
            /\ \A f \in FilesOf(k) : IsFailedMarker(f, k)

\* C4: a combination whose worker returned normally before the join
\* returned has a full result file as its only file.
C4_ReturnIsCompleted ==
    \A k \in Combos :
        (wstate[k] = "done_ok" /\ ~joinTimedOut[k] /\ Recorded(k)) =>
            /\ Cardinality(FilesOf(k)) = 1
            /\ \A f \in FilesOf(k) : IsFullResult(f, k)

\* C5: every write creates a new file (none is overwritten); each recorded
\* combination has exactly one file, of one of the three kinds, and no
\* other combination has any; at the end of the sweep the number of files
\* is the product of the domain sizes.
C5_OneFilePerCombination ==
    /\ Cardinality(DOMAIN files) = nwrites
    /\ \A k \in Combos :
          /\ Cardinality(FilesOf(k)) = (IF Recorded(k) THEN 1 ELSE 0)
          /\ \A f \in FilesOf(k) :
                \/ IsTimeoutMarker(f, k)
                \/ IsFailedMarker(f, k)
                \/ IsFullResult(f, k)
    /\ DOMAIN files = UNION {FilesOf(k) : k \in Combos}
    /\ pc = "done" => Cardinality(DOMAIN files) = DomainSizeProduct

\* the end of a sweep that wrote a file of each of the three kinds
C5_Witness ==
    /\ pc = "done"
    /\ \E f \in DOMAIN files : f[2] = TimeoutSuffix
    /\ \E f \in DOMAIN files : f[2] = FailedSuffix
    /\ \E f \in DOMAIN files : f[2] = FullSuffix

IndexTuples(doms) ==
    LET longest == CHOOSE n \in {Len(doms[d]) : d \in DOMAIN doms} :
                       \A d \in DOMAIN doms : Len(doms[d]) <= n
    IN {t \in [DOMAIN doms -> 1..longest] :
            \A d \in DOMAIN doms : t[d] <= Len(doms[d])}

\* the element of the Cartesian product chosen by the positions t
TupleAt(doms, t) == [d \in DOMAIN doms |-> doms[d][t[d]]]

\* the position of the value v in the domain dom (its values are distinct)
PosIn(dom, v) == CHOOSE j \in 1..Len(dom) : dom[j] = v

\* a comes before b in lexicographic order, the first domain most significant
LexLess(doms, a, b) ==
    \E d \in DOMAIN doms :
        /\ \A e \in 1..(d - 1) : a[e] = b[e]
        /\ PosIn(doms[d], a[d]) < PosIn(doms[d], b[d])

\* the number written by a sequence of decimal digits
RECURSIVE OrdinalValue(_)
OrdinalValue(digits) ==
    IF Len(digits) = 0 THEN 0
    ELSE 10 * OrdinalValue(SubSeq(digits, 1, Len(digits) - 1))
            + digits[Len(digits)]

\* C13: the combination list holds every element of the Cartesian product of
\* the five domains exactly once and nothing else, in lexicographic order
\* (first domain slowest, last fastest), and the ordinal in the name of a
\* file is the 1-based position in the list of the combination the file holds.
C13_ProductOrder ==
    LET doms == all_params_dict(argv)
        cs == combinations(argv)
    IN /\ \A t \in IndexTuples(doms) :
              Cardinality({k \in 1..Len(cs) : cs[k] = TupleAt(doms, t)}) = 1
       /\ \A k \in 1..Len(cs) :
              \E t \in IndexTuples(doms) : cs[k] = TupleAt(doms, t)
       /\ \A k, l \in 1..Len(cs) : k < l => LexLess(doms, cs[k], cs[l])
       /\ pc \in {"start", "join", "alive", "get"} => params = cs[i]
       /\ \A f \in DOMAIN files :
              LET k == OrdinalValue(f[1][3])
              IN /\ k \in 1..Len(cs)
                 /\ files[f].params = cs[k]

\* the sweep of the command line "3 5" has ended; its second file holds the
\* second tau_0 with the first b, its third the first tau_0 with the second b
C13_Witness ==
    /\ pc = "done"
    /\ argv = <<3, 5>>
    /\ \E f \in DOMAIN files :
          /\ f[1] = <<3, 5, <<0, 0, 2>> >>
          /\ files[f].params = <<1600, 1, 100, 3333, 16>>
    /\ \E f \in DOMAIN files :
          /\ f[1] = <<3, 5, <<0, 0, 3>> >>
          /\ files[f].params = <<1600, 2, 50, 3333, 16>>

(***************************************************************************)
(* Properties of get_top.                                                  *)
(***************************************************************************)
Min(a, b) == IF a < b THEN a ELSE b

Returned == gpc = "returned"

\* the position of index idx in top_index_list, 0 when it is not there
PosOf(idx) ==
    IF \E p \in 1..Len(top_index_list) : top_index_list[p] = idx
    THEN CHOOSE p \in 1..Len(top_index_list) : top_index_list[p] = idx
    ELSE 0

\* C7: for a non-empty list and n >= 1, both returned lists have
\* min(n, len(values)) elements.
C7_LengthIsMin ==
    (Returned /\ Len(value_list) >= 1 /\ num_values >= 1) =>
        /\ Len(top_value_list) = Min(num_values, Len(value_list))
        /\ Len(top_index_list) = Min(num_values, Len(value_list))

\* C8: equal values are each kept as an entry of their own, in encounter
\* order: of two equal values the later one is returned only after the
\* earlier one, and is returned with it whenever the result has room.
C8_StableOnTies ==
    Returned =>
        \A a, b \in 0..(Len(value_list) - 1) :
            (a < b /\ value_list[a + 1] = value_list[b + 1]) =>
                /\ PosOf(b) # 0 => (PosOf(a) # 0 /\ PosOf(a) < PosOf(b))
                /\ (PosOf(a) # 0 /\ Len(top_index_list) < num_values)
                        => PosOf(b) # 0

\* C9: for n = 0 and a non-empty list, both returned lists are empty.
C9_ZeroIsEmpty ==
    (Returned /\ num_values = 0 /\ Len(value_list) >= 1) =>
        (top_value_list = <<>> /\ top_index_list = <<>>)

\* C10: after every iteration of the loop, and at the return,
\* top_value_list is in non-increasing order and every top_index_list[p]
\* is an index of value_list whose value is top_value_list[p].
C10_DescendingSelection ==
    gpc \in {"loop", "returned"} =>
        /\ Len(top_index_list) = Len(top_value_list)
        /\ \A p \in 1..(Len(top_value_list) - 1) :
              top_value_list[p] >= top_value_list[p + 1]
        /\ \A p \in 1..Len(top_index_list) :
              /\ top_index_list[p] \in 0..(Len(value_list) - 1)
              /\ value_list[top_index_list[p] + 1] = top_value_list[p]

\* a return of three values of which the last to be met is the largest
C10_Witness ==
    /\ Returned
    /\ Len(top_value_list) = 3
    /\ top_index_list[1] = 2
    /\ top_value_list[1] > top_value_list[2]

(***************************************************************************)
(* The CSV codec: dict_to_csv (cp_sampler.py 124-149, sum_phi.py 57-82)    *)
(* and csv_to_dict (sum_phi.py 11-55).  A text is a sequence of one-       *)
(* character strings.  A cell value is a number or a string; a dictionary  *)
(* is the sequence of its entries in insertion order.                      *)
(***************************************************************************)
Comma == ","
Newline == "\n"

Num(n) == [num |-> TRUE, n |-> n, s |-> <<>>]
Txt(t) == [num |-> FALSE, n |-> 0, s |-> t]

DigitChars == <<"0", "1", "2", "3", "4", "5", "6", "7", "8", "9">>

\* str(value): the decimal digits of a number, a string as it is
StrOf(v) ==
    IF v.num THEN [p \in 1..Len(Str(v.n)) |-> DigitChars[Str(v.n)[p] + 1]]
    ELSE v.s

\* sep.join(fields)
RECURSIVE Join(_, _)
Join(fields, sep) ==
    IF Len(fields) = 0 THEN <<>>
    ELSE IF Len(fields) = 1 THEN fields[1]
    ELSE fields[1] \o <<sep>> \o Join(Tail(fields), sep)

\* the position of the first sep in text, 0 when there is none
FirstPos(text, sep) ==
    IF \E p \in 1..Len(text) : text[p] = sep
    THEN CHOOSE p \in 1..Len(text) :
            text[p] = sep /\ \A q \in 1..(p - 1) : text[q] # sep
    ELSE 0

\* text.split(sep)
RECURSIVE Split(_, _)
Split(text, sep) ==
    LET p == FirstPos(text, sep)
    IN IF p = 0 THEN <<text>>
       ELSE <<SubSeq(text, 1, p - 1)>> \o Split(SubSeq(text, p + 1, Len(text)), sep)

\* fh.readlines(): the lines of the text, each with its line break
RECURSIVE ReadLines(_)
ReadLines(text) ==
    LET p == FirstPos(text, Newline)
    IN IF Len(text) = 0 THEN <<>>
       ELSE IF p = 0 THEN <<text>>
       ELSE <<SubSeq(text, 1, p)>> \o ReadLines(SubSeq(text, p + 1, Len(text)))

\* line.replace("\n", "")
StripNewlines(text) == SelectSeq(text, LAMBDA ch : ch # Newline)

IsDigit(ch) == \E d \in 1..10 : DigitChars[d] = ch

DigitValue(ch) == (CHOOSE d \in 1..10 : DigitChars[d] = ch) - 1

\* float(text) succeeds: within the characters of the model, on digits only
IsFloat(text) == Len(text) > 0 /\ \A p \in 1..Len(text) : IsDigit(text[p])

RECURSIVE FloatOf(_)
FloatOf(text) ==
    IF Len(text) = 0 THEN 0
    ELSE 10 * FloatOf(SubSeq(text, 1, Len(text) - 1)) + DigitValue(text[Len(text)])

\* a plausible slip: the field kept as text, float() never tried
CoerceNever(text) == Txt(text)
\* lines 41-44 of sum_phi.py: float(value) when it parses, else the text
Coerce(text) == IF IsFloat(text) THEN Num(FloatOf(text)) ELSE Txt(text)

Keys(d) == [p \in 1..Len(d) |-> d[p].key]

\* lines 134-137: every value that is not a list becomes a one-element list
WrapScalars(d) == [p \in 1..Len(d) |-> [d[p] EXCEPT !.islist = TRUE]]

RECURSIVE MaxOf(_)
MaxOf(ns) ==
    IF Len(ns) = 1 THEN ns[1]
    ELSE LET m == MaxOf(Tail(ns)) IN IF ns[1] >= m THEN ns[1] ELSE m

\* line 144: max([len(data_dict[header]) for header in headers])
MaxListSize(d) == MaxOf([p \in 1..Len(d) |-> Len(d[p].vals)])

\* a plausible slip: the padding of the shorter columns left out
RowListNoPadding(d, r) ==
    LET there == SelectSeq(d, LAMBDA e : r <= Len(e.vals))
    IN [p \in 1..Len(there) |-> StrOf(there[p].vals[r])]
\* line 146: row_list of row r (from 1)
RowList(d, r) ==
    [p \in 1..Len(d) |->
        IF r <= Len(d[p].vals) THEN StrOf(d[p].vals[r]) ELSE <<>>]

\* the position of key among the entries of d, 0 when it is not a key
KeyPos(d, key) ==
    IF \E p \in 1..Len(d) : d[p].key = key
    THEN CHOOSE p \in 1..Len(d) : d[p].key = key
    ELSE 0

\* lines 31-32 of sum_phi.py: csv_dict[header] = [] for each header
RECURSIVE EmptyColumns(_)
EmptyColumns(headers) ==
    IF Len(headers) = 0 THEN <<>>
    ELSE LET d == EmptyColumns(SubSeq(headers, 1, Len(headers) - 1))
             h == headers[Len(headers)]
         IN IF KeyPos(d, h) # 0
            THEN [d EXCEPT ![KeyPos(d, h)].vals = <<>>]
            ELSE Append(d, [key |-> h, islist |-> TRUE, vals |-> <<>>])

\* lines 37-45 of sum_phi.py for the first n headers: the fields that are
\* not empty are coerced and appended to the column of their header
RECURSIVE AppendFields(_, _, _, _)
AppendFields(d, headers, fields, n) ==
    IF n = 0 THEN d
    ELSE LET e == AppendFields(d, headers, fields, n - 1)
             q == KeyPos(e, headers[n])
         IN IF fields[n] = <<>> THEN e
            ELSE [e EXCEPT ![q].vals = Append(@, Coerce(fields[n]))]

\* lines 48-52 of sum_phi.py: a one-item list becomes the item
UnwrapSingles(d) ==
    [p \in 1..Len(d) |-> [d[p] EXCEPT !.islist = (Len(d[p].vals) # 1)]]

\* line 29 of sum_phi.py
Headers(lines) == Split(StripNewlines(lines[1]), Comma)

(***************************************************************************)
(* The codec's inputs.                                                     *)
(***************************************************************************)
KeyNames == << <<"a">>, <<"b">> >>

CellSet ==
    { Num(1),
      Txt(<<"x">>),
      Txt(<<"x", ",", "2">>),
      Txt(<<"x", "\n", "2">>) }

\* a value of data_dict: a list of up to MaxCol cells, or one cell
ColumnValues ==
    {[islist |-> TRUE, vals |-> v] : v \in SeqsUpTo(CellSet, MaxCol)}
        \cup {[islist |-> FALSE, vals |-> <<c>>] : c \in CellSet}

\* the dictionaries over the first m key names, m >= 1
CsvDicts ==
    UNION {
        {[p \in 1..m |-> [key |-> KeyNames[p], islist |-> cv[p].islist,
                          vals |-> cv[p].vals]] :
            cv \in [1..m -> ColumnValues]} :
        m \in 1..Len(KeyNames)}

\* what the file at csv_path holds before the call
OldContent == <<"o", "l", "d", "\n">>

InitCsv ==
    /\ SweepIdle
    /\ TopIdle
    /\ HarvIdle
    /\ cdict \in CsvDicts
    /\ cfile = OldContent
    /\ cidx = 1
    /\ cpc = "write_open"
    /\ clines = <<>>
    /\ cresult = <<>>

\* lines 134-141: scalars wrapped, the file opened with "w+" (emptied),
\* the header line written
DictToCsvOpen ==
    /\ cpc = "write_open"
    /\ cdict' = WrapScalars(cdict)
    /\ cfile' = Join(Keys(cdict), Comma) \o <<Newline>>
    /\ cidx' = 1
    /\ cpc' = "write_rows"
    /\ UNCHANGED <<clines, cresult, sweepVars, topVars, harvVars>>

\* lines 145-148: row cidx is written
DictToCsvRow ==
    /\ cpc = "write_rows"
    /\ cidx <= MaxListSize(cdict)
    /\ cfile' = cfile \o Join(RowList(cdict, cidx), Comma) \o <<Newline>>
    /\ cidx' = cidx + 1
    /\ UNCHANGED <<cdict, cpc, clines, cresult, sweepVars, topVars, harvVars>>

\* line 149: the loop is over, the file is closed
DictToCsvClose ==
    /\ cpc = "write_rows"
    /\ cidx > MaxListSize(cdict)
    /\ cpc' = "written"
    /\ UNCHANGED <<cdict, cfile, cidx, clines, cresult,
                   sweepVars, topVars, harvVars>>

\* lines 23-32 of sum_phi.py: the lines are read, the header line is taken
\* off, every header gets an empty list
CsvToDictOpen ==
    /\ cpc = "written"
    /\ clines' = ReadLines(cfile)
    /\ cresult' = EmptyColumns(Headers(ReadLines(cfile)))
    /\ cidx' = 2
    /\ cpc' = "read_rows"
    /\ UNCHANGED <<cdict, cfile, sweepVars, topVars, harvVars>>

\* lines 35-45 of sum_phi.py: one line is split and its fields appended
CsvToDictLine ==
    /\ cpc = "read_rows"
    /\ cidx <= Len(clines)
    /\ LET fields == Split(StripNewlines(clines[cidx]), Comma)
       IN /\ Len(fields) >= Len(Headers(clines))
          /\ cresult' = AppendFields(cresult, Headers(clines), fields,
                                     Len(Headers(clines)))
    /\ cidx' = cidx + 1
    /\ UNCHANGED <<cdict, cfile, cpc, clines, sweepVars, topVars, harvVars>>

\* line 38 of sum_phi.py: csv_line_list[i] raises IndexError on a line
\* with fewer fields than there are headers
CsvToDictIndexError ==
    /\ cpc = "read_rows"
    /\ cidx <= Len(clines)
    /\ Len(Split(StripNewlines(clines[cidx]), Comma)) < Len(Headers(clines))
    /\ cpc' = "raised"
    /\ UNCHANGED <<cdict, cfile, cidx, clines, cresult,
                   sweepVars, topVars, harvVars>>

\* lines 48-55 of sum_phi.py: one-item lists unwrapped, csv_dict returned
CsvToDictReturn ==
    /\ cpc = "read_rows"
    /\ cidx > Len(clines)
    /\ cresult' = UnwrapSingles(cresult)
    /\ cpc' = "read"
    /\ UNCHANGED <<cdict, cfile, cidx, clines, sweepVars, topVars, harvVars>>

NextCsv ==
    \/ DictToCsvOpen
    \/ DictToCsvRow
    \/ DictToCsvClose
    \/ CsvToDictOpen
    \/ CsvToDictLine
    \/ CsvToDictIndexError
    \/ CsvToDictReturn

SpecCsv == InitCsv /\ [][NextCsv]_vars

(***************************************************************************)
(* Properties of the codec.                                                *)
(***************************************************************************)
\* the longest column of d
LongestColumn(d) ==
    CHOOSE m \in {Len(d[p].vals) : p \in 1..Len(d)} :
        \A p \in 1..Len(d) : Len(d[p].vals) <= m

\* the field of column p in row r: the text of the value, empty past the end
FieldOf(d, p, r) == IF r <= Len(d[p].vals) THEN StrOf(d[p].vals[r]) ELSE <<>>

\* rows 1..r, each comma-joined and ended by a line break
RECURSIVE RowsText(_, _)
RowsText(d, r) ==
    IF r = 0 THEN <<>>
    ELSE RowsText(d, r - 1)
            \o Join([p \in 1..Len(d) |-> FieldOf(d, p, r)], Comma) \o <<Newline>>

\* C11: once dict_to_csv has returned, the file holds nothing of its old
\* content: it is the header line (the keys comma-joined in mapping order)
\* followed by one row per index up to the longest column, row r holding
\* the text of each column's r-th value, or an empty field for a column
\* shorter than r; a scalar counts as a column of one value.
C11_DictToCsvLayout ==
    cpc = "written" =>
        cfile = Join(Keys(cdict), Comma) \o <<Newline>>
                    \o RowsText(cdict, LongestColumn(cdict))

\* {"a": [1, 1], "b": 1} written as the lines 'a,b', '1,1', '1,'
C11_Witness ==
    /\ cpc = "written"
    /\ Len(cdict) = 2
    /\ cdict[1].vals = <<Num(1), Num(1)>>
    /\ cdict[2].vals = <<Num(1)>>
    /\ cfile = <<"a", ",", "b", "\n", "1", ",", "1", "\n", "1", ",", "\n">>

\* every value of every column of d has the property P
AllCells(d, P(_)) ==
    \A p \in 1..Len(d) : \A q \in 1..Len(d[p].vals) : P(d[p].vals[q])

NonEmptyText(v) == Len(StrOf(v)) > 0

CommaFree(v) == \A q \in 1..Len(StrOf(v)) : StrOf(v)[q] # Comma

NewlineFree(v) == \A q \in 1..Len(StrOf(v)) : StrOf(v)[q] # Newline

\* what a written value is read back as: a number as that number, a
\* string of numeric text as its number, any other string as it is
ReadBack(v) ==
    IF v.num THEN v
    ELSE IF IsFloat(v.s) THEN Num(FloatOf(v.s))
    ELSE v

\* the dictionary the claim says is read back from the file written for d
ReadBackDict(d) ==
    [p \in 1..Len(d) |->
        [key    |-> d[p].key,
         islist |-> (Len(d[p].vals) # 1),
         vals   |-> [q \in 1..Len(d[p].vals) |-> ReadBack(d[p].vals[q])]]]

X_HEADER == "strain"
PHI_HEADERS == <<"phi_1", "Phi", "phi_2">>
GRAIN_INDEX == 0
NUM_POINTS == 10
PARAM_NAME_LIST == <<"tau_sat", "b", "tau_0", "gamma_0", "n">>

\* the elements of a sequence
Range(t) == {t[j] : j \in DOMAIN t}

\* the key of a parameter column
ParamKey(name) == <<name>>

\* f"{label}_{j}"
PointKey(label, j) == <<label, j>>

\* get_names(label) of line 99
get_names(label) == [j \in 1..NUM_POINTS |-> PointKey(label, j)]

\* line 100
success_keys ==
    [j \in DOMAIN PARAM_NAME_LIST |-> ParamKey(PARAM_NAME_LIST[j])]
        \o get_names("phi_1") \o get_names("Phi") \o get_names("phi_2")

\* `keyword in csv_file`, a file name being a sequence of words
Contains(name, keyword) == \E j \in DOMAIN name : name[j] = keyword

\* lines 126-129: the name holds "failed" or "timeout"
failed(csv_file) ==
    \E keyword \in {"failed", "timeout"} : Contains(csv_file, keyword)

\* A file of the results directory as csv_to_dict returns it: its name, its
\* columns, the number of values of the strain column and of each per-grain
\* column.
SweepFullFile ==
    [name |-> <<"0_0_001", ".csv">>,
     cols |-> Range(param_names \o DataCols \o GrainCols),
     nstrain |-> NUM_POINTS, ngrains |-> 2]
PhiFullFile ==
    [name |-> <<"0_0_002", ".csv">>,
     cols |-> Range(PARAM_NAME_LIST) \cup {X_HEADER} \cup Range(PHI_HEADERS),
     nstrain |-> NUM_POINTS, ngrains |-> 2]
ShortStrainFile ==
    [name |-> <<"0_0_003", ".csv">>,
     cols |-> Range(PARAM_NAME_LIST) \cup {X_HEADER} \cup Range(PHI_HEADERS),
     nstrain |-> 2, ngrains |-> 2]
NoGrainFile ==
    [name |-> <<"0_0_004", ".csv">>,
     cols |-> Range(PARAM_NAME_LIST) \cup {X_HEADER} \cup Range(PHI_HEADERS),
     nstrain |-> NUM_POINTS, ngrains |-> 0]
FailedMarkerFile ==
    [name |-> <<"0_0_005", "_", "failed", ".csv">>,
     cols |-> Range(param_names), nstrain |-> 0, ngrains |-> 0]
TimeoutMarkerFile ==
    [name |-> <<"0_0_006", "_", "timeout", ".csv">>,
     cols |-> Range(param_names), nstrain |-> 0, ngrains |-> 0]
ForeignFile ==
    [name |-> <<"notes", ".csv">>,
     cols |-> {X_HEADER}, nstrain |-> 2, ngrains |-> 0]

FileSet == {SweepFullFile, PhiFullFile, ShortStrainFile, NoGrainFile,
            FailedMarkerFile, TimeoutMarkerFile, ForeignFile}

\* lines 101-103
EmptySuccessDict == [key \in Range(success_keys) |-> <<>>]

InitHarv ==
    /\ SweepIdle
    /\ TopIdle
    /\ CsvIdle
    /\ hfiles \in SeqsUpTo(FileSet, MaxFiles)
    /\ hidx = 1
    /\ hpc = "loop"
    /\ success_dict = EmptySuccessDict

\* lines 121-123 succeed: data_dict has every parameter column
HasParams(file) == Range(PARAM_NAME_LIST) \subseteq file.cols

\* line 138 succeeds: every per-grain column is there and has a value at
\* GRAIN_INDEX
HasGrain(file) ==
    /\ Range(PHI_HEADERS) \subseteq file.cols
    /\ GRAIN_INDEX < file.ngrains

\* lines 134-135: one value appended to every parameter column; the row of
\* file number idx is recorded as idx
AppendParams(sd, idx) ==
    [key \in DOMAIN sd |->
        IF key \in {ParamKey(PARAM_NAME_LIST[j]) : j \in DOMAIN PARAM_NAME_LIST}
        THEN Append(sd[key], idx) ELSE sd[key]]

\* lines 145-147 for angle number a: the first n point columns of the angle
\* get one value each
AppendPoints(sd, a, n, idx) ==
    [key \in DOMAIN sd |->
        IF key \in {PointKey(PHI_HEADERS[a], j) : j \in 1..n}
        THEN Append(sd[key], idx) ELSE sd[key]]

\* lines 142-147 for a file with at least NUM_POINTS strain values
RECURSIVE AppendAngles(_, _, _)
AppendAngles(sd, a, idx) ==
    IF a > Len(PHI_HEADERS) THEN sd
    ELSE AppendAngles(AppendPoints(sd, a, NUM_POINTS, idx), a + 1, idx)

\* a plausible slip: the parameters added before the marker test
SkippedAddsParams(sd, idx) == AppendParams(sd, idx)
\* lines 130-131: `continue` before anything is appended
Skipped(sd, idx) == sd

\* line 123 raises KeyError: a parameter column is missing
HarvestKeyError ==
    /\ hpc = "loop"
    /\ hidx <= Len(hfiles)
    /\ ~HasParams(hfiles[hidx])
    /\ hpc' = "raised"
    /\ UNCHANGED <<hfiles, hidx, success_dict, sweepVars, topVars, csvVars>>

\* lines 115-131 for a file whose name marks it failed or timed out
HarvestSkip ==
    /\ hpc = "loop"
    /\ hidx <= Len(hfiles)
    /\ HasParams(hfiles[hidx])
    /\ failed(hfiles[hidx].name)
    /\ success_dict' = Skipped(success_dict, hidx)
    /\ hidx' = hidx + 1
    /\ UNCHANGED <<hfiles, hpc, sweepVars, topVars, csvVars>>

\* line 138 raises (KeyError or IndexError) after the parameters were added
HarvestNoGrain ==
    /\ hpc = "loop"
    /\ hidx <= Len(hfiles)
    /\ HasParams(hfiles[hidx])
    /\ ~failed(hfiles[hidx].name)
    /\ ~HasGrain(hfiles[hidx])
    /\ success_dict' = AppendParams(success_dict, hidx)
    /\ hpc' = "raised"
    /\ UNCHANGED <<hfiles, hidx, sweepVars, topVars, csvVars>>

\* line 147 raises IndexError at y_list[j]: fewer than NUM_POINTS strain
\* values, the points before j of the first angle already added
HarvestShortStrain ==
    /\ hpc = "loop"
    /\ hidx <= Len(hfiles)
    /\ HasParams(hfiles[hidx])
    /\ ~failed(hfiles[hidx].name)
    /\ HasGrain(hfiles[hidx])
    /\ X_HEADER \in hfiles[hidx].cols
    /\ hfiles[hidx].nstrain < NUM_POINTS
    /\ success_dict' = AppendPoints(AppendParams(success_dict, hidx), 1,
                                    hfiles[hidx].nstrain, hidx)
    /\ hpc' = "raised"
    /\ UNCHANGED <<hfiles, hidx, sweepVars, topVars, csvVars>>

\* lines 115-147 for a successful file
HarvestRow ==
    /\ hpc = "loop"
    /\ hidx <= Len(hfiles)
    /\ HasParams(hfiles[hidx])
    /\ ~failed(hfiles[hidx].name)
    /\ HasGrain(hfiles[hidx])
    /\ X_HEADER \in hfiles[hidx].cols
    /\ hfiles[hidx].nstrain >= NUM_POINTS
    /\ success_dict' = AppendAngles(AppendParams(success_dict, hidx), 1, hidx)
    /\ hidx' = hidx + 1
    /\ UNCHANGED <<hfiles, hpc, sweepVars, topVars, csvVars>>

\* line 150: the loop has ended, the summary is written
HarvestWrite ==
    /\ hpc = "loop"
    /\ hidx > Len(hfiles)
    /\ hpc' = "written"
    /\ UNCHANGED <<hfiles, hidx, success_dict, sweepVars, topVars, csvVars>>

NextHarv ==
    \/ HarvestKeyError
    \/ HarvestSkip
    \/ HarvestNoGrain
    \/ HarvestShortStrain
    \/ HarvestRow
    \/ HarvestWrite

SpecHarv == InitHarv /\ [][NextHarv]_vars

(***************************************************************************)
(* Properties of the harvester.                                            *)
(***************************************************************************)
\* the numbers of the processed files whose name is no marker, in order
RECURSIVE SuccessfulUpTo(_)
SuccessfulUpTo(n) ==
    IF n = 0 THEN <<>>
    ELSE IF \/ Contains(hfiles[n].name, "failed")
            \/ Contains(hfiles[n].name, "timeout")
         THEN SuccessfulUpTo(n - 1)
         ELSE Append(SuccessfulUpTo(n - 1), n)

\* C14: after each file is processed there are 35 aggregate columns and
\* each holds exactly one row for every processed file whose name contains
\* neither "failed" nor "timeout", in the order of the files, none for the
\* marker files.
C14_OneRowPerSuccessfulFile ==
    hpc \in {"loop", "written"} =>
        /\ Cardinality(DOMAIN success_dict) = 35
        /\ \A key \in DOMAIN success_dict :
              /\ success_dict[key] = SuccessfulUpTo(hidx - 1)
              /\ Len(success_dict[key]) =
                    Cardinality({n \in 1..(hidx - 1) :
                                    ~failed(hfiles[n].name)})

\* a marker file and then a successful file were processed: one row
C14_Witness ==
    /\ hpc = "written"
    /\ Len(hfiles) = 2
    /\ hfiles[1] = TimeoutMarkerFile
    /\ hfiles[2] = PhiFullFile
    /\ \A key \in DOMAIN success_dict : success_dict[key] = <<2>>

(***************************************************************************)
(* Properties of the sweep that concern the shared model and the           *)
(* harvester.                                                              *)
(***************************************************************************)
\* the worker threads that are alive
Alive == {k \in Combos : wstate[k] = "running"}

\* C15: when define_params has overwritten the parameter fields for the next
\* combination no worker started for an earlier combination is running, and
\* at most one worker thread is alive at any time.
C15_NoMutationInFlight ==
    /\ pc = "start" => Alive = {}
    /\ Cardinality(Alive) <= 1

\* the columns the harvester reads from a successful file
HarvesterColumns ==
    Range(PARAM_NAME_LIST) \cup {X_HEADER} \cup Range(PHI_HEADERS)

\* C16: every full result file the sweep writes has every column the
\* harvester reads from a successful file.
C16_ColumnAgreement ==
    \A f \in DOMAIN files :
        f[2] = FullSuffix => HarvesterColumns \subseteq Range(files[f].cols)

====
